---- MODULE Spec2Model ----
(***************************************************************************)
(* Model of op_deleteconfig() (server/op_deleteconfig.c), the NETCONF      *)
(* <delete-config> handler of netopeer2: one invocation, from entry to the *)
(* returned reply.  Every call the handler makes to a collaborator (the    *)
(* sysrepo wrappers np2srv_sr_*, the url helpers op_url_*, libyang) is a   *)
(* step; the outcome of a call is chosen nondeterministically.             *)
(***************************************************************************)
EXTENDS Integers, Sequences, FiniteSets, TLC

VARIABLES
    urlCapability,  \* build flag NP2SRV_ENABLED_URL_CAPABILITY
    registry,       \* np2srv.ly_ctx: the modules, in ly_ctx_get_module_iter order
    rpc,            \* the child of /ietf-netconf:delete-config/target
    sessions_ds,    \* sessions->ds, the store the NETCONF session is bound to
    srs_ds,         \* the store the sysrepo session sessions->srs works on
    changes,        \* uncommitted changes of sessions->srs
    datastore,      \* committed content of each store: the modules holding data
    entry,          \* sessions->ds and the uncommitted changes at entry
    pc,             \* position in op_deleteconfig
    target,         \* local: sr_datastore_t target
    target_url,     \* local: char *target_url
    index,          \* local: uint32_t index
    ereply,         \* local: struct nc_server_reply *ereply
    ret,            \* the value returned to the caller
    calls           \* the calls made to the collaborators, in order

vars == <<urlCapability, registry, rpc, sessions_ds, srs_ds, changes, datastore,
          entry, pc, target, target_url, index, ereply, ret, calls>>

----------------------------------------------------------------------------
(* Bounds *)

NumModules == 3

----------------------------------------------------------------------------
(* Values *)

NULL == "NULL"

SR_DS_STARTUP == 0
SR_DS_RUNNING == 1
SR_DS_CANDIDATE == 2
Datastores == {SR_DS_STARTUP, SR_DS_RUNNING, SR_DS_CANDIDATE}
DatastoreName(ds) == <<"startup", "running", "candidate">>[ds + 1]

\* The node kinds the handler's mask names.
ConfigNodeTypes ==
    {"LYS_CONTAINER", "LYS_LIST", "LYS_LEAFLIST", "LYS_LEAF", "LYS_ANYXML"}

Node(nodetype, flags) == [nodetype |-> nodetype, flags |-> flags]

\* mod->data of the modules the registry is drawn from: the top-level schema
\* nodes of a module, in LY_TREE_FOR order.
ModuleShapes ==
    { << Node("LYS_RPC", {}) >>,
      << Node("LYS_CONTAINER", {"LYS_CONFIG_R"}) >>,
      << Node("LYS_LEAF", {"LYS_CONFIG_R"}), Node("LYS_LIST", {"LYS_CONFIG_W"}) >>,
      << Node("LYS_CONTAINER", {"LYS_CONFIG_W"}), Node("LYS_LEAFLIST", {"LYS_CONFIG_W"}) >>,
      << Node("LYS_ANYXML", {"LYS_CONFIG_W"}) >>,
      << Node("LYS_CHOICE", {"LYS_CONFIG_W"}) >> }

ModuleNames == <<"ma", "mb", "mc", "md", "me", "mf">>

Registries ==
    { [i \in 1..NumModules |-> [name |-> ModuleNames[i], data |-> s[i]]] :
        s \in [1..NumModules -> ModuleShapes] }

\* The target of a validated <delete-config>: <startup/>, or <url> with its
\* value_str.
Requests ==
    { [dsname |-> "startup", value_str |-> NULL] }
    \cup { [dsname |-> "url", value_str |-> v] : v \in {NULL, "", "file:///cfg"} }

\* <running/> and <candidate/>: the other built-in stores as the target's child.
OtherStoreRequests ==
    { [dsname |-> n, value_str |-> NULL] : n \in {"running", "candidate"} }

\* A module carries configuration when one of its top-level nodes is
\* writable data, or a writable choice of such data.
CarriesConfig(mod) ==
    \E i \in 1..Len(mod.data) :
        /\ mod.data[i].nodetype \in ConfigNodeTypes \cup {"LYS_CHOICE"}
        /\ "LYS_CONFIG_W" \in mod.data[i].flags

ConfigModules(reg) == { reg[i].name : i \in { j \in 1..Len(reg) : CarriesConfig(reg[j]) } }

NoChanges == [set |-> {}, del |-> {}]

----------------------------------------------------------------------------
(* Replies (libnetconf2) *)

Err(tag, msg) == [tag |-> tag, msg |-> msg]

nc_server_reply_ok == [type |-> "NC_RPL_OK", err |-> <<>>]

nc_server_reply_err(e) == [type |-> "NC_RPL_ERROR", err |-> <<e>>]

\* A reply pointer that is NULL, and the caller's slot before the return.
NoReply == [type |-> "NULL", err |-> <<>>]
NotReturned == [type |-> "not-returned", err |-> <<>>]

\* Appends e to an error reply; any other argument is refused and left as is.
nc_server_reply_add_err(reply, e) ==
    IF reply.type = "NC_RPL_ERROR"
    THEN [reply EXCEPT !.err = Append(@, e)]
    ELSE reply

\* The reply a failed collaborator call leaves in *ereply.
CollaboratorError(fn, arg) ==
    nc_server_reply_err(Err("operation-failed", fn \o " " \o arg))

AccessDenied == nc_server_reply_err(Err("access-denied", ""))

MissingTargetUrlReply ==
    nc_server_reply_err(Err("operation-failed", "Missing target url"))

UrlNotSupportedReply ==
    nc_server_reply_err(Err("operation-failed", "<url> source not supported"))

InvalidUrlConfig ==
    Err("operation-failed", "File at url does not appear to contain a valid config")

Call(fn, arg, ok) == [fn |-> fn, arg |-> arg, ok |-> ok]

----------------------------------------------------------------------------
(* The datastore engine (sysrepo), as the handler uses it *)

\* sr_delete_item(path "/<module>:*"): the removal joins the uncommitted changes.
sr_delete_item(ch, modname) ==
    [set |-> ch.set \ {modname}, del |-> ch.del \cup {modname}]

\* sr_commit: the uncommitted changes applied to the content, as one transaction.
sr_commit(content, ch) == (content \cup ch.set) \ ch.del

\* sr_discard_changes.
sr_discard_changes(ch) == NoChanges

----------------------------------------------------------------------------
(* Initial states: one <delete-config> about to be handled *)

InitWith(requests) ==
    /\ urlCapability \in BOOLEAN
    /\ registry \in Registries
    /\ rpc \in requests
    /\ sessions_ds \in Datastores
    /\ srs_ds = sessions_ds
    /\ changes \in {NoChanges}
                   \cup { [set |-> {n}, del |-> {}] : n \in ConfigModules(registry) }
    /\ datastore = [d \in Datastores |-> ConfigModules(registry)]
    /\ entry = [ds |-> sessions_ds, changes |-> changes, datastore |-> datastore]
    /\ pc = "start"
    /\ target = 0
    /\ target_url = NULL
    /\ index = 0
    /\ ereply = NoReply
    /\ ret = NotReturned
    /\ calls = <<>>

Init == InitWith(Requests)

\* Entry with a target the handler does not test for: the tag of another
\* built-in store.
InitAnyTarget == InitWith(Requests \cup OtherStoreRequests)

----------------------------------------------------------------------------
(* op_deleteconfig, step by step *)

Path(modname) == "/" \o modname \o ":*"

\* Lines 45-47 with the result of the check ignored.
CheckPermissionIgnored ==
    /\ pc = "start"
    /\ \E ok \in BOOLEAN :
        /\ calls' = Append(calls,
                Call("np2srv_sr_check_exec_permission", "/ietf-netconf:delete-config", ok))
        /\ ereply' = IF ok THEN ereply ELSE AccessDenied
    /\ pc' = "resolve"
    /\ UNCHANGED <<urlCapability, registry, rpc, sessions_ds, srs_ds, changes,
                   datastore, entry, target, target_url, index, ret>>

\* Lines 45-47.
CheckPermission ==
    /\ pc = "start"
    /\ \E ok \in BOOLEAN :
        /\ calls' = Append(calls,
                Call("np2srv_sr_check_exec_permission", "/ietf-netconf:delete-config", ok))
        /\ IF ok
           THEN /\ pc' = "resolve"
                /\ UNCHANGED ereply
           ELSE /\ pc' = "finish"
                /\ ereply' = AccessDenied
    /\ UNCHANGED <<urlCapability, registry, rpc, sessions_ds, srs_ds, changes,
                   datastore, entry, target, target_url, index, ret>>

\* Lines 63-67.
MissingTargetUrl ==
    /\ ereply' = MissingTargetUrlReply
    /\ pc' = "finish"
    /\ UNCHANGED <<target, target_url>>

\* Lines 70-74 without the reply being built.
UrlNotSupportedNoReply ==
    /\ pc' = "finish"
    /\ UNCHANGED <<target, target_url, ereply>>

\* Lines 70-74 without the goto: the handler goes on to the store.
UrlNotSupportedFallsThrough ==
    /\ ereply' = UrlNotSupportedReply
    /\ pc' = "switch"
    /\ UNCHANGED <<target, target_url>>

\* Lines 70-74.
UrlNotSupported ==
    /\ ereply' = UrlNotSupportedReply
    /\ pc' = "finish"
    /\ UNCHANGED <<target, target_url>>

\* Lines 50-78.
ResolveTarget ==
    /\ pc = "resolve"
    /\ calls' = Append(calls,
            Call("lyd_find_path", "/ietf-netconf:delete-config/target/*", TRUE))
    /\ IF rpc.dsname = "startup"
       THEN /\ target' = SR_DS_STARTUP
            /\ pc' = "switch"
            /\ UNCHANGED <<target_url, ereply>>
       ELSE IF rpc.dsname = "url"
       THEN IF urlCapability
            THEN IF rpc.value_str # NULL
                 THEN /\ target_url' = rpc.value_str
                      /\ pc' = "url_import"
                      /\ UNCHANGED <<target, ereply>>
                 ELSE MissingTargetUrl
            ELSE UrlNotSupported
       ELSE /\ pc' = "switch"
            /\ UNCHANGED <<target, target_url, ereply>>
    /\ UNCHANGED <<urlCapability, registry, rpc, sessions_ds, srs_ds, changes,
                   datastore, entry, index, ret>>

\* Lines 86-91.
UrlImport ==
    /\ pc = "url_import"
    /\ \E ok \in BOOLEAN :
        /\ calls' = Append(calls, Call("op_url_import", target_url, ok))
        /\ IF ok
           THEN /\ pc' = "url_init"
                /\ UNCHANGED ereply
           ELSE /\ ereply' = nc_server_reply_add_err(
                                 CollaboratorError("op_url_import", target_url),
                                 InvalidUrlConfig)
                /\ pc' = "finish"
    /\ UNCHANGED <<urlCapability, registry, rpc, sessions_ds, srs_ds, changes,
                   datastore, entry, target, target_url, index, ret>>

\* Lines 93-99 without the goto of line 99: the handler goes on to the store.
UrlInitFallsThrough ==
    /\ pc = "url_init"
    /\ \E ok \in BOOLEAN :
        /\ calls' = Append(calls, Call("op_url_init", target_url, ok))
        /\ ereply' = IF ok THEN nc_server_reply_ok ELSE CollaboratorError("op_url_init", target_url)
        /\ pc' = IF ok THEN "switch" ELSE "finish"
    /\ UNCHANGED <<urlCapability, registry, rpc, sessions_ds, srs_ds, changes,
                   datastore, entry, target, target_url, index, ret>>

\* Lines 93-99 with the result of op_url_init ignored.
UrlInitIgnoresFailure ==
    /\ pc = "url_init"
    /\ \E ok \in BOOLEAN :
        /\ calls' = Append(calls, Call("op_url_init", target_url, ok))
        /\ ereply' = nc_server_reply_ok
    /\ pc' = "finish"
    /\ UNCHANGED <<urlCapability, registry, rpc, sessions_ds, srs_ds, changes,
                   datastore, entry, target, target_url, index, ret>>

\* Lines 93-99.
UrlInit ==
    /\ pc = "url_init"
    /\ \E ok \in BOOLEAN :
        /\ calls' = Append(calls, Call("op_url_init", target_url, ok))
        /\ ereply' = IF ok THEN nc_server_reply_ok ELSE CollaboratorError("op_url_init", target_url)
    /\ pc' = "finish"
    /\ UNCHANGED <<urlCapability, registry, rpc, sessions_ds, srs_ds, changes,
                   datastore, entry, target, target_url, index, ret>>

\* Lines 103-109 without the test of line 103: the switch is always asked for.
SwitchDsAlways ==
    /\ pc = "switch"
    /\ \E ok \in BOOLEAN :
          /\ calls' = Append(calls, Call("np2srv_sr_session_switch_ds", DatastoreName(target), ok))
          /\ IF ok
             THEN /\ srs_ds' = target
                  /\ sessions_ds' = target
                  /\ pc' = "refresh"
                  /\ UNCHANGED ereply
             ELSE /\ ereply' = CollaboratorError("np2srv_sr_session_switch_ds",
                                                DatastoreName(target))
                  /\ pc' = "finish"
                  /\ UNCHANGED <<srs_ds, sessions_ds>>
    /\ UNCHANGED <<urlCapability, registry, rpc, changes, datastore, entry, target,
                   target_url, index, ret>>

\* Lines 103-114 with the refresh inside the block of the switch: a session
\* bound to the target already is not refreshed.
SwitchDsSkipsRefresh ==
    /\ pc = "switch"
    /\ IF sessions_ds # target
       THEN \E ok \in BOOLEAN :
              /\ calls' = Append(calls, Call("np2srv_sr_session_switch_ds", DatastoreName(target), ok))
              /\ IF ok
                 THEN /\ srs_ds' = target
                      /\ sessions_ds' = target
                      /\ pc' = "refresh"
                      /\ UNCHANGED ereply
                 ELSE /\ ereply' = CollaboratorError("np2srv_sr_session_switch_ds",
                                                    DatastoreName(target))
                      /\ pc' = "finish"
                      /\ UNCHANGED <<srs_ds, sessions_ds>>
       ELSE /\ pc' = "loop"
            /\ UNCHANGED <<calls, srs_ds, sessions_ds, ereply>>
    /\ UNCHANGED <<urlCapability, registry, rpc, changes, datastore, entry, target,
                   target_url, index, ret>>

\* Lines 103-109 without the assignment of line 108.
SwitchDsNoUpdate ==
    /\ pc = "switch"
    /\ IF sessions_ds # target
       THEN \E ok \in BOOLEAN :
              /\ calls' = Append(calls, Call("np2srv_sr_session_switch_ds", DatastoreName(target), ok))
              /\ IF ok
                 THEN /\ srs_ds' = target
                      /\ pc' = "refresh"
                      /\ UNCHANGED <<sessions_ds, ereply>>
                 ELSE /\ ereply' = CollaboratorError("np2srv_sr_session_switch_ds",
                                                    DatastoreName(target))
                      /\ pc' = "finish"
                      /\ UNCHANGED <<srs_ds, sessions_ds>>
       ELSE /\ pc' = "refresh"
            /\ UNCHANGED <<calls, srs_ds, sessions_ds, ereply>>
    /\ UNCHANGED <<urlCapability, registry, rpc, changes, datastore, entry, target,
                   target_url, index, ret>>

\* Lines 103-109.
SwitchDs ==
    /\ pc = "switch"
    /\ IF sessions_ds # target
       THEN \E ok \in BOOLEAN :
              /\ calls' = Append(calls, Call("np2srv_sr_session_switch_ds", DatastoreName(target), ok))
              /\ IF ok
                 THEN /\ srs_ds' = target
                      /\ sessions_ds' = target
                      /\ pc' = "refresh"
                      /\ UNCHANGED ereply
                 ELSE /\ ereply' = CollaboratorError("np2srv_sr_session_switch_ds",
                                                    DatastoreName(target))
                      /\ pc' = "finish"
                      /\ UNCHANGED <<srs_ds, sessions_ds>>
       ELSE /\ pc' = "refresh"
            /\ UNCHANGED <<calls, srs_ds, sessions_ds, ereply>>
    /\ UNCHANGED <<urlCapability, registry, rpc, changes, datastore, entry, target,
                   target_url, index, ret>>

\* Lines 112-119 with a discard before leaving on a failed refresh.
RefreshDiscardsOnFailure ==
    /\ pc = "refresh"
    /\ \E ok \in BOOLEAN :
        IF ok
        THEN /\ calls' = Append(calls, Call("np2srv_sr_session_refresh", "", TRUE))
             /\ pc' = "loop"
             /\ index' = 0
             /\ UNCHANGED <<ereply, changes>>
        ELSE /\ calls' = calls \o << Call("np2srv_sr_session_refresh", "", FALSE),
                                     Call("np2srv_sr_discard_changes", "", TRUE) >>
             /\ changes' = sr_discard_changes(changes)
             /\ ereply' = CollaboratorError("np2srv_sr_session_refresh", "")
             /\ pc' = "finish"
             /\ UNCHANGED index
    /\ UNCHANGED <<urlCapability, registry, rpc, sessions_ds, srs_ds,
                   datastore, entry, target, target_url, ret>>

\* Lines 112-119.
Refresh ==
    /\ pc = "refresh"
    /\ \E ok \in BOOLEAN :
        /\ calls' = Append(calls, Call("np2srv_sr_session_refresh", "", ok))
        /\ IF ok
           THEN /\ pc' = "loop"
                /\ index' = 0
                /\ UNCHANGED ereply
           ELSE /\ ereply' = CollaboratorError("np2srv_sr_session_refresh", "")
                /\ pc' = "finish"
                /\ UNCHANGED index
    /\ UNCHANGED <<urlCapability, registry, rpc, sessions_ds, srs_ds, changes,
                   datastore, entry, target, target_url, ret>>

\* Lines 122-123 without the test of LYS_CONFIG_R.
SkipIgnoringReadOnly(iter) == iter.nodetype \notin ConfigNodeTypes

\* Lines 122-123: the node is passed over.
Skip(iter) ==
    \/ iter.nodetype \notin ConfigNodeTypes
    \/ "LYS_CONFIG_R" \in iter.flags

\* Lines 121-137: LY_TREE_FOR reaches a node that is not passed over.
Qualifies(mod) == \E i \in 1..Len(mod.data) : ~Skip(mod.data[i])

\* Lines 128-129, 134-136: the delete succeeded; on to the next module.
DeleteItemDone(path, modname) ==
    /\ calls' = Append(calls, Call("np2srv_sr_delete_item", path, TRUE))
    /\ changes' = sr_delete_item(changes, modname)
    /\ pc' = "loop"
    /\ UNCHANGED ereply

\* Lines 128-132 without the discard.
DeleteItemFailedNoDiscard(path, modname) ==
    /\ calls' = Append(calls, Call("np2srv_sr_delete_item", path, FALSE))
    /\ ereply' = CollaboratorError("np2srv_sr_delete_item", path)
    /\ pc' = "finish"
    /\ UNCHANGED changes

\* Lines 128-132 leaving the inner loop only: the while loop goes on.
DeleteItemFailedContinues(path, modname) ==
    /\ calls' = calls \o << Call("np2srv_sr_delete_item", path, FALSE),
                            Call("np2srv_sr_discard_changes", "", TRUE) >>
    /\ changes' = sr_discard_changes(changes)
    /\ ereply' = CollaboratorError("np2srv_sr_delete_item", path)
    /\ pc' = "loop"

\* Lines 128-132: the delete failed.
DeleteItemFailed(path, modname) ==
    /\ calls' = calls \o << Call("np2srv_sr_delete_item", path, FALSE),
                            Call("np2srv_sr_discard_changes", "", TRUE) >>
    /\ changes' = sr_discard_changes(changes)
    /\ ereply' = CollaboratorError("np2srv_sr_delete_item", path)
    /\ pc' = "finish"

\* Lines 120-138 without the break of line 136: one delete for every node that
\* is not passed over.
VisitModuleNoBreak ==
    /\ pc = "loop"
    /\ index < Len(registry)
    /\ index' = index + 1
    /\ LET mod == registry[index + 1]
           n == Cardinality({ i \in 1..Len(mod.data) : ~Skip(mod.data[i]) })
       IN
       IF Qualifies(mod)
       THEN \/ /\ calls' = calls \o
                     [j \in 1..n |-> Call("np2srv_sr_delete_item", Path(mod.name), TRUE)]
               /\ changes' = sr_delete_item(changes, mod.name)
               /\ pc' = "loop"
               /\ UNCHANGED ereply
            \/ DeleteItemFailed(Path(mod.name), mod.name)
       ELSE /\ pc' = "loop"
            /\ UNCHANGED <<calls, changes, ereply>>
    /\ UNCHANGED <<urlCapability, registry, rpc, sessions_ds, srs_ds, datastore,
                   entry, target, target_url, ret>>

\* Lines 120-138 with the iterator not advanced past a module that is passed
\* over: the loop yields that module again.
VisitModuleStalls ==
    /\ pc = "loop"
    /\ index < Len(registry)
    /\ LET mod == registry[index + 1] IN
       IF Qualifies(mod)
       THEN /\ index' = index + 1
            /\ \/ DeleteItemDone(Path(mod.name), mod.name)
               \/ DeleteItemFailed(Path(mod.name), mod.name)
       ELSE /\ pc' = "loop"
            /\ UNCHANGED <<index, calls, changes, ereply>>
    /\ UNCHANGED <<urlCapability, registry, rpc, sessions_ds, srs_ds, datastore,
                   entry, target, target_url, ret>>

\* Lines 120-138: one turn of the while loop, on the module the iterator yields.
VisitModule ==
    /\ pc = "loop"
    /\ index < Len(registry)
    /\ index' = index + 1
    /\ LET mod == registry[index + 1] IN
       IF Qualifies(mod)
       THEN \/ DeleteItemDone(Path(mod.name), mod.name)
            \/ DeleteItemFailed(Path(mod.name), mod.name)
       ELSE /\ pc' = "loop"
            /\ UNCHANGED <<calls, changes, ereply>>
    /\ UNCHANGED <<urlCapability, registry, rpc, sessions_ds, srs_ds, datastore,
                   entry, target, target_url, ret>>

\* Lines 141, 146: the commit succeeded.
CommitDone ==
    /\ calls' = Append(calls, Call("np2srv_sr_commit", "", TRUE))
    /\ datastore' = [datastore EXCEPT ![srs_ds] = sr_commit(@, changes)]
    /\ changes' = NoChanges
    /\ ereply' = nc_server_reply_ok

\* Lines 141-146 without the goto: the acknowledgement replaces the error.
CommitFailedFallsThrough ==
    /\ calls' = calls \o << Call("np2srv_sr_commit", "", FALSE),
                            Call("np2srv_sr_discard_changes", "", TRUE) >>
    /\ changes' = sr_discard_changes(changes)
    /\ ereply' = nc_server_reply_ok
    /\ UNCHANGED datastore

\* Lines 141-144: the commit failed.
CommitFailed ==
    /\ calls' = calls \o << Call("np2srv_sr_commit", "", FALSE),
                            Call("np2srv_sr_discard_changes", "", TRUE) >>
    /\ changes' = sr_discard_changes(changes)
    /\ ereply' = CollaboratorError("np2srv_sr_commit", "")
    /\ UNCHANGED datastore

\* Lines 141-146 reached from inside the loop, before the iterator is exhausted.
CommitEarly ==
    /\ pc = "loop"
    /\ \/ CommitDone
       \/ CommitFailed
    /\ pc' = "finish"
    /\ UNCHANGED <<urlCapability, registry, rpc, sessions_ds, srs_ds, entry, target,
                   target_url, index, ret>>

\* Lines 120, 141-146: the iterator is exhausted; commit.
Commit ==
    /\ pc = "loop"
    /\ index >= Len(registry)
    /\ \/ CommitDone
       \/ CommitFailed
    /\ pc' = "finish"
    /\ UNCHANGED <<urlCapability, registry, rpc, sessions_ds, srs_ds, entry, target,
                   target_url, index, ret>>

\* Lines 148-154.
Finish ==
    /\ pc = "finish"
    /\ ret' = ereply
    /\ pc' = "done"
    /\ UNCHANGED <<urlCapability, registry, rpc, sessions_ds, srs_ds, changes,
                   datastore, entry, target, target_url, index, ereply, calls>>

Next ==
    \/ CheckPermission
    \/ ResolveTarget
    \/ UrlImport
    \/ UrlInit
    \/ SwitchDs
    \/ Refresh
    \/ VisitModule
    \/ Commit
    \/ Finish

Spec == Init /\ [][Next]_vars

SpecAnyTarget == InitAnyTarget /\ [][Next]_vars

\* The handler runs on one thread and every call it makes returns: a step that
\* can be taken is taken.
FairSpec == Spec /\ WF_vars(Next)

----------------------------------------------------------------------------
(* Vocabulary of the properties *)

Returned == pc = "done"

CallsTo(fn) == { i \in 1..Len(calls) : calls[i].fn = fn }

FailedCallsTo(fn) == { i \in CallsTo(fn) : ~calls[i].ok }

StoreFns ==
    {"np2srv_sr_session_switch_ds", "np2srv_sr_session_refresh",
     "np2srv_sr_delete_item", "np2srv_sr_commit", "np2srv_sr_discard_changes"}

UrlFns == {"op_url_import", "op_url_init"}

NoCallTo(fns) == \A i \in 1..Len(calls) : calls[i].fn \notin fns

\* The modules with a top-level node of one of the five data kinds that is
\* not read-only state.
QualifyingModules ==
    { i \in 1..Len(registry) :
        \E k \in 1..Len(registry[i].data) :
            /\ registry[i].data[k].nodetype \in
                   {"LYS_CONTAINER", "LYS_LIST", "LYS_LEAFLIST", "LYS_LEAF", "LYS_ANYXML"}
            /\ "LYS_CONFIG_R" \notin registry[i].data[k].flags }

DeletedOk(i) ==
    \E c \in CallsTo("np2srv_sr_delete_item") :
        calls[c].arg = Path(registry[i].name) /\ calls[c].ok

EraseBegun == \E c \in CallsTo("np2srv_sr_session_refresh") : calls[c].ok

----------------------------------------------------------------------------
(* C1 *)

AllClearedAndCommitted ==
    /\ \A i \in QualifyingModules : DeletedOk(i)
    /\ \E c \in CallsTo("np2srv_sr_commit") : calls[c].ok
    /\ \A i \in QualifyingModules : registry[i].name \notin datastore[target]

StoreUntouched ==
    /\ datastore = entry.datastore
    /\ changes = NoChanges

\* C1: atomicity on a built-in store target.  When the operation returns after
\* the erase has begun, either every qualifying module was deleted and the commit
\* succeeded, so that the committed store holds no data of a qualifying module,
\* or the committed content is what it was at entry and no uncommitted change is
\* left; an invocation that returns before the erase begins leaves the committed
\* content as it was.
T_C1_Atomicity ==
    Returned =>
        IF EraseBegun
        THEN AllClearedAndCommitted \/ StoreUntouched
        ELSE datastore = entry.datastore

\* A delete failed at the last qualifying module, after an earlier one succeeded,
\* with changes pending at entry, and the operation has returned.
W_C1_FailedAfterPartialDelete ==
    /\ Returned
    /\ entry.changes # NoChanges
    /\ FailedCallsTo("np2srv_sr_delete_item") # {}
    /\ Cardinality(CallsTo("np2srv_sr_delete_item")) >= 2
    /\ datastore[target] # {}

----------------------------------------------------------------------------
(* C2 *)

\* C2: exactly one reply.  Nothing is returned before the end; what is returned
\* is either the acknowledgement, carrying no error, or an error reply carrying at
\* least one error, and never an absent reply.
T_C2_ExactlyOneReply ==
    /\ ~Returned => ret = NotReturned
    /\ Returned =>
        \/ ret.type = "NC_RPL_OK" /\ ret.err = <<>>
        \/ ret.type = "NC_RPL_ERROR" /\ Len(ret.err) >= 1

\* The operation has returned from the branch that refuses a url target.
W_C2_ReturnedUnsupported ==
    /\ Returned
    /\ ~urlCapability
    /\ rpc.dsname = "url"
    /\ ret.type = "NC_RPL_ERROR"

----------------------------------------------------------------------------
(* C3 *)

PermissionDenied ==
    /\ Len(calls) >= 1
    /\ calls[1].fn = "np2srv_sr_check_exec_permission"
    /\ ~calls[1].ok

\* C3: when the execute-permission check fails, the handler goes to its end with
\* the Access-Denied reply: it makes no other call (the target is not looked up,
\* no url is fetched or initialised, no store call is made), and the session's
\* store, the uncommitted changes and the committed content stay as they were.
T_C3_PermissionDenied ==
    PermissionDenied =>
        /\ Len(calls) = 1
        /\ pc \in {"finish", "done"}
        /\ ereply = AccessDenied
        /\ Returned => ret = AccessDenied
        /\ target_url = NULL
        /\ sessions_ds = entry.ds /\ srs_ds = entry.ds
        /\ changes = entry.changes
        /\ datastore = entry.datastore

\* The operation has returned after a denied permission check on a session
\* bound to another store than the one the request names.
W_C3_DeniedAndReturned ==
    /\ Returned
    /\ PermissionDenied
    /\ rpc.dsname = "startup"
    /\ entry.ds # SR_DS_STARTUP

----------------------------------------------------------------------------
(* C4 *)

\* C4: when a delete call fails, it is followed by exactly one discard, which is
\* the last call of the invocation: no commit and no further delete is made, the
\* reply is that delete's error, and the committed content is what it was at
\* entry.
T_C4_DeleteFailure ==
    \A c \in FailedCallsTo("np2srv_sr_delete_item") :
        /\ Len(calls) = c + 1
        /\ calls[c + 1].fn = "np2srv_sr_discard_changes"
        /\ Cardinality(CallsTo("np2srv_sr_discard_changes")) = 1
        /\ CallsTo("np2srv_sr_commit") = {}
        /\ pc \in {"finish", "done"}
        /\ ereply = CollaboratorError("np2srv_sr_delete_item", calls[c].arg)
        /\ Returned => ret = ereply
        /\ datastore = entry.datastore

\* The delete of the third module failed after two deletes succeeded, and the
\* operation has returned.
W_C4_ThirdDeleteFailed ==
    /\ Returned
    /\ Cardinality(CallsTo("np2srv_sr_delete_item")) = 3
    /\ \E c \in FailedCallsTo("np2srv_sr_delete_item") :
           calls[c].arg = Path(registry[3].name)

----------------------------------------------------------------------------
(* C5 *)

\* C5: when the commit fails, it is followed by exactly one discard, the last
\* call, and the reply is the commit's error, never the acknowledgement; and a
\* store target is acknowledged only after exactly one commit, which succeeded.
T_C5_CommitFailure ==
    /\ \A c \in FailedCallsTo("np2srv_sr_commit") :
        /\ Len(calls) = c + 1
        /\ calls[c + 1].fn = "np2srv_sr_discard_changes"
        /\ Cardinality(CallsTo("np2srv_sr_discard_changes")) = 1
        /\ \A d \in CallsTo("np2srv_sr_delete_item") : calls[d].ok
        /\ ereply = CollaboratorError("np2srv_sr_commit", "")
        /\ Returned => ret = ereply
    /\ (Returned /\ rpc.dsname # "url" /\ ret.type = "NC_RPL_OK") =>
        /\ Cardinality(CallsTo("np2srv_sr_commit")) = 1
        /\ FailedCallsTo("np2srv_sr_commit") = {}

\* The commit failed after at least two deletes succeeded, and the operation has
\* returned.
W_C5_CommitFailed ==
    /\ Returned
    /\ FailedCallsTo("np2srv_sr_commit") # {}
    /\ Cardinality(CallsTo("np2srv_sr_delete_item")) >= 2

----------------------------------------------------------------------------
(* C6 *)

\* C6 as stated: a request for "startup" on a session bound to another store,
\* with the switch, the refresh, every delete and the commit succeeding, is
\* acknowledged, leaves the session bound to "startup", and leaves the startup
\* store without any configuration.
CE_C6_StartupErased ==
    ( /\ Returned
      /\ rpc.dsname = "startup"
      /\ entry.ds # SR_DS_STARTUP
      /\ \A i \in 1..Len(calls) : calls[i].ok
      /\ CallsTo("np2srv_sr_commit") # {} )
    => /\ ret = nc_server_reply_ok
       /\ sessions_ds = SR_DS_STARTUP
       /\ datastore[SR_DS_STARTUP] = {}

----------------------------------------------------------------------------
(* C7 *)

\* C7 as stated: with the url capability, a url target whose value is absent or
\* the empty string is answered "Missing target url", and neither a url call nor
\* a store call is made.
CE_C7_MissingTargetUrl ==
    ( /\ urlCapability
      /\ rpc.dsname = "url"
      /\ rpc.value_str \in {NULL, ""} )
    => /\ NoCallTo(UrlFns \cup StoreFns)
       /\ Returned /\ calls[1].ok => ret = MissingTargetUrlReply

----------------------------------------------------------------------------
(* C8 *)

\* C8 as stated, for a url given with a value: when the import of the url fails,
\* the reply carries exactly one error, "File at url does not appear to contain a
\* valid config", the url is not initialised and no store call is made.
CE_C8_ImportFailure ==
    (FailedCallsTo("op_url_import") # {} /\ rpc.value_str \notin {NULL, ""}) =>
        /\ NoCallTo({"op_url_init"} \cup StoreFns)
        /\ Returned => ret = nc_server_reply_err(InvalidUrlConfig)

----------------------------------------------------------------------------
(* C9 *)

\* C9: without the url capability, a url target is answered "<url> source not
\* supported" once the target is looked at; no store call and no url call is
\* made, and the session's store, the uncommitted changes and the committed
\* content stay as they were.
T_C9_CapabilityGating ==
    (~urlCapability /\ rpc.dsname = "url") =>
        /\ NoCallTo(StoreFns \cup UrlFns)
        /\ pc \in {"start", "resolve", "finish", "done"}
        /\ (Len(calls) = 2 /\ calls[1].ok) => ereply = UrlNotSupportedReply
        /\ (Returned /\ calls[1].ok) => ret = UrlNotSupportedReply
        /\ sessions_ds = entry.ds /\ srs_ds = entry.ds
        /\ changes = entry.changes
        /\ datastore = entry.datastore

\* A url request with a usable value has been refused by a build without the
\* capability, on a session with changes pending, and the operation has returned.
W_C9_UrlRefused ==
    /\ Returned
    /\ ~urlCapability
    /\ rpc.dsname = "url"
    /\ rpc.value_str \notin {NULL, ""}
    /\ calls[1].ok
    /\ entry.changes # NoChanges

----------------------------------------------------------------------------
(* C10 *)

\* C10: a delete call is made for a module only if that module has a top-level
\* node of kind container, list, leaf-list, leaf or anyxml that is not read-only
\* state.
T_C10_DomainSkip ==
    \A c \in CallsTo("np2srv_sr_delete_item") :
        \E i \in QualifyingModules : calls[c].arg = Path(registry[i].name)

\* The whole registry was walked: a module of read-only state and a module
\* without data nodes were passed over, and another module was deleted.
W_C10_Skipped ==
    /\ Returned
    /\ CallsTo("np2srv_sr_commit") # {}
    /\ Cardinality(CallsTo("np2srv_sr_delete_item")) = 1
    /\ \E i \in 1..Len(registry) :
           registry[i].data = << Node("LYS_CONTAINER", {"LYS_CONFIG_R"}) >>
    /\ \E i \in 1..Len(registry) : registry[i].data = << Node("LYS_RPC", {}) >>

----------------------------------------------------------------------------
(* C11 *)

UrlPath == urlCapability /\ rpc.dsname = "url"

\* C11: a url target never touches the internal datastore.  Whatever the outcome
\* (import failure, initialisation failure, success), no switch, refresh, delete,
\* commit or discard call is made, and the session's store, the uncommitted
\* changes and the committed content of every store are what they were at entry.
T_C11_UrlLeavesStoreAlone ==
    UrlPath =>
        /\ NoCallTo(StoreFns)
        /\ sessions_ds = entry.ds /\ srs_ds = entry.ds
        /\ changes = entry.changes
        /\ datastore = entry.datastore

\* The url was imported and initialised, the acknowledgement was returned, and
\* the session was bound to another store than startup with changes pending.
W_C11_UrlErased ==
    /\ Returned
    /\ UrlPath
    /\ \E c \in CallsTo("op_url_init") : calls[c].ok
    /\ ret = nc_server_reply_ok
    /\ entry.ds # SR_DS_STARTUP
    /\ entry.changes # NoChanges

----------------------------------------------------------------------------
(* C12 *)

TargetResolved == pc \in {"switch", "refresh", "loop"}

----------------------------------------------------------------------------
(* C13 *)

SwitchDecided ==
    \/ pc \in {"refresh", "loop"}
    \/ CallsTo("np2srv_sr_session_switch_ds") # {}
    \/ CallsTo("np2srv_sr_session_refresh") # {}

\* C13: on a built-in target the switch is asked for exactly when the session's
\* store at entry differs from the target, and at most once.  A failed switch is
\* the last call: its error is the reply and the session's store is unchanged.
\* After a successful switch, and whenever the refresh is due or was called, the
\* session's store is the target.
T_C13_StoreSwitcher ==
    /\ SwitchDecided =>
        /\ (CallsTo("np2srv_sr_session_switch_ds") # {}) <=> (entry.ds # target)
        /\ Cardinality(CallsTo("np2srv_sr_session_switch_ds")) <= 1
    /\ \A c \in FailedCallsTo("np2srv_sr_session_switch_ds") :
        /\ Len(calls) = c
        /\ pc \in {"finish", "done"}
        /\ ereply = CollaboratorError("np2srv_sr_session_switch_ds", calls[c].arg)
        /\ Returned => ret = ereply
        /\ sessions_ds = entry.ds
    /\ (pc = "refresh" \/ CallsTo("np2srv_sr_session_refresh") # {}) =>
        sessions_ds = target /\ srs_ds = target

\* The session was bound to the target already: no switch was asked for, the
\* refresh was called, and the operation has returned.
W_C13_NoSwitchNeeded ==
    /\ Returned
    /\ entry.ds = target
    /\ CallsTo("np2srv_sr_session_refresh") # {}
    /\ CallsTo("np2srv_sr_session_switch_ds") = {}

----------------------------------------------------------------------------
(* C14 *)

RefreshDue ==
    \/ pc = "loop"
    \/ /\ pc \in {"finish", "done"}
       /\ SwitchDecided
       /\ FailedCallsTo("np2srv_sr_session_switch_ds") = {}

\* C14: on a built-in target whose switch, if any, succeeded, the refresh is
\* called exactly once, whether or not a switch was made; every delete and the
\* commit come after a successful refresh; a failed refresh is the last call, and
\* its error is the reply.
T_C14_RefreshFirst ==
    /\ RefreshDue => Cardinality(CallsTo("np2srv_sr_session_refresh")) = 1
    /\ Cardinality(CallsTo("np2srv_sr_session_refresh")) <= 1
    /\ \A c \in CallsTo("np2srv_sr_delete_item") \cup CallsTo("np2srv_sr_commit") :
        \E r \in CallsTo("np2srv_sr_session_refresh") : r < c /\ calls[r].ok
    /\ \A r \in FailedCallsTo("np2srv_sr_session_refresh") :
        /\ Len(calls) = r
        /\ pc \in {"finish", "done"}
        /\ ereply = CollaboratorError("np2srv_sr_session_refresh", "")
        /\ Returned => ret = ereply

\* The refresh failed on a session that needed no switch, and the operation has
\* returned.
W_C14_RefreshFailed ==
    /\ Returned
    /\ FailedCallsTo("np2srv_sr_session_refresh") # {}
    /\ CallsTo("np2srv_sr_session_switch_ds") = {}
    /\ QualifyingModules # {}

----------------------------------------------------------------------------
(* C15 *)

IsDeleteCall(c) == c.fn = "np2srv_sr_delete_item"

HasWritableData(mod) ==
    \E k \in 1..Len(mod.data) :
        /\ mod.data[k].nodetype \in
               {"LYS_CONTAINER", "LYS_LIST", "LYS_LEAFLIST", "LYS_LEAF", "LYS_ANYXML"}
        /\ "LYS_CONFIG_R" \notin mod.data[k].flags

\* The paths of the delete calls made so far, in order.
DeletePaths ==
    LET d == SelectSeq(calls, IsDeleteCall) IN [i \in 1..Len(d) |-> d[i].arg]

\* The paths of the qualifying modules among the first n of the registry, in
\* registry order.
QualifyingPaths(n) ==
    LET q == SelectSeq(SubSeq(registry, 1, n), HasWritableData)
    IN  [i \in 1..Len(q) |-> Path(q[i].name)]

\* C15: while no delete has failed, the delete calls made are, in order, one
\* "/<module>:*" for each qualifying module among those visited so far, the
\* modules being visited one by one in registry order; when the commit is called
\* the whole registry was visited and the delete calls are exactly the qualifying
\* modules in registry order.
T_C15_BulkEraserCoverage ==
    /\ index <= Len(registry)
    /\ (pc = "loop" /\ FailedCallsTo("np2srv_sr_delete_item") = {}) =>
        DeletePaths = QualifyingPaths(index)
    /\ CallsTo("np2srv_sr_commit") # {} =>
        /\ index = Len(registry)
        /\ DeletePaths = QualifyingPaths(Len(registry))

\* The commit was called after a walk that deleted a module with two qualifying
\* nodes and another qualifying module, and passed over a third.
W_C15_WalkedAll ==
    /\ CallsTo("np2srv_sr_commit") # {}
    /\ Len(DeletePaths) = 2
    /\ Len(DeletePaths) < Len(registry)
    /\ \E i \in 1..Len(registry) :
        Cardinality({ k \in 1..Len(registry[i].data) :
                        "LYS_CONFIG_W" \in registry[i].data[k].flags }) = 2

----------------------------------------------------------------------------
(* C16 *)

\* C16: the commit is called at most once, and only when every module of the
\* registry was visited and every delete call made, one for each qualifying
\* module, came before it and succeeded; after a failed delete no commit is made.
T_C16_CommitAfterAllDeletes ==
    /\ Cardinality(CallsTo("np2srv_sr_commit")) <= 1
    /\ \A c \in CallsTo("np2srv_sr_commit") :
        /\ index = Len(registry)
        /\ \A d \in CallsTo("np2srv_sr_delete_item") : d < c /\ calls[d].ok
        /\ Cardinality(CallsTo("np2srv_sr_delete_item")) = Cardinality(QualifyingModules)
    /\ FailedCallsTo("np2srv_sr_delete_item") # {} => CallsTo("np2srv_sr_commit") = {}

\* The commit was called after three deletes.
W_C16_CommittedAfterThree ==
    /\ CallsTo("np2srv_sr_commit") # {}
    /\ Cardinality(CallsTo("np2srv_sr_delete_item")) = 3

----------------------------------------------------------------------------
(* C17 *)

\* C17: op_url_init is called at most once, and only right after a successful
\* op_url_import of the same url; once the handler has returned, a successful
\* import was followed by the initialisation.  A url target is acknowledged
\* exactly when both calls succeeded, and a failed initialisation is answered
\* with its error.
T_C17_UrlErase ==
    /\ Cardinality(CallsTo("op_url_init")) <= 1
    /\ \A c \in CallsTo("op_url_init") :
        /\ c > 1
        /\ calls[c - 1] = Call("op_url_import", calls[c].arg, TRUE)
    /\ Returned =>
        \A c \in CallsTo("op_url_import") :
            calls[c].ok => \E d \in CallsTo("op_url_init") : d = c + 1
    /\ (Returned /\ rpc.dsname = "url") =>
        ( ret = nc_server_reply_ok <=>
            /\ \E c \in CallsTo("op_url_import") : calls[c].ok
            /\ \E c \in CallsTo("op_url_init") : calls[c].ok )
    /\ \A c \in FailedCallsTo("op_url_init") :
        /\ ereply = CollaboratorError("op_url_init", calls[c].arg)
        /\ Returned => ret = ereply

\* The import succeeded, the initialisation failed, and the operation has
\* returned.
W_C17_InitFailed ==
    /\ Returned
    /\ FailedCallsTo("op_url_init") # {}
    /\ target_url = "file:///cfg"

----------------------------------------------------------------------------
(* C19 *)

\* C19: the discard is called at most once, and only right after a failed delete
\* or a failed commit; it is not called when the acknowledgement is returned,
\* and a handler that returns without having called a delete or the commit
\* leaves the uncommitted changes of entry in place.
T_C19_DiscardOnlyAfterFailure ==
    /\ Cardinality(CallsTo("np2srv_sr_discard_changes")) <= 1
    /\ \A d \in CallsTo("np2srv_sr_discard_changes") :
        /\ d > 1
        /\ calls[d - 1].fn \in {"np2srv_sr_delete_item", "np2srv_sr_commit"}
        /\ ~calls[d - 1].ok
    /\ (Returned /\ ret = nc_server_reply_ok) =>
        CallsTo("np2srv_sr_discard_changes") = {}
    /\ NoCallTo({"np2srv_sr_delete_item", "np2srv_sr_commit"}) =>
        /\ changes = entry.changes
        /\ CallsTo("np2srv_sr_discard_changes") = {}

\* The refresh failed with changes pending since before the call, and the
\* operation has returned with them still pending.
W_C19_EarlyFailureKeepsChanges ==
    /\ Returned
    /\ FailedCallsTo("np2srv_sr_session_refresh") # {}
    /\ entry.changes # NoChanges
    /\ changes = entry.changes

----------------------------------------------------------------------------
(* C20 *)

SwitchSucceeded == \E c \in CallsTo("np2srv_sr_session_switch_ds") : calls[c].ok

\* C20: the binding is not rolled back.  From a successful switch on, whatever
\* follows, the session's store is the target; without one it is the store of
\* entry: the field is written by the switch step alone.
T_C20_BindingKept ==
    sessions_ds = IF SwitchSucceeded THEN target ELSE entry.ds

\* The switch succeeded, a later delete failed, and the operation has returned an
\* error with the session bound to the target.
W_C20_FailedButRebound ==
    /\ Returned
    /\ SwitchSucceeded
    /\ FailedCallsTo("np2srv_sr_delete_item") # {}
    /\ ret.type = "NC_RPL_ERROR"
    /\ entry.ds # target
    /\ sessions_ds = target

----------------------------------------------------------------------------
(* C18 *)

\* The phases of an invocation, in the order they can follow one another; the
\* url flow and the store flow share ranks, since an invocation takes one of them.
PhaseRank(p) ==
    CASE p = "start" -> 0
      [] p = "resolve" -> 1
      [] p = "url_import" -> 2
      [] p = "url_init" -> 3
      [] p = "switch" -> 2
      [] p = "refresh" -> 3
      [] p = "loop" -> 4
      [] p = "finish" -> 5
      [] p = "done" -> 6

OneWayStep ==
    \/ PhaseRank(pc') > PhaseRank(pc)
    \/ pc = "loop" /\ pc' = "loop" /\ index' = index + 1

EndsCommittedOrRolledBack ==
    \/ /\ calls[Len(calls)] = Call("np2srv_sr_commit", "", TRUE)
       /\ ret = nc_server_reply_ok
    \/ /\ calls[Len(calls)].fn = "np2srv_sr_discard_changes"
       /\ ret.type = "NC_RPL_ERROR"

\* C18: every invocation returns; each step either moves to a later phase or
\* stays in the module loop and advances to the next module, so that no phase is
\* entered again and no module is visited twice; and an invocation that made a
\* delete call returns either after a successful commit, with the
\* acknowledgement, or after a discard, with an error.
T_C18_TerminatesOneWay ==
    /\ <>Returned
    /\ [][OneWayStep]_vars
    /\ [](Returned /\ CallsTo("np2srv_sr_delete_item") # {} => EndsCommittedOrRolledBack)

\* The operation has returned after walking a registry in which the first two
\* modules were passed over and the third was deleted.
W_C18_ReturnedAfterLoop ==
    /\ Returned
    /\ index = Len(registry)
    /\ Cardinality(CallsTo("np2srv_sr_delete_item")) = 1
    /\ ~HasWritableData(registry[1])
    /\ ~HasWritableData(registry[2])

====
